---- MODULE Spec2Model ----
(***************************************************************************)
(* lox-rs: the scanner (src/tokenizer.rs, Tokenizer) and the expression    *)
(* parser (src/parser.rs, Parser) as one state machine, and the scanner of *)
(* the command-line entry point (src/main.rs, tokenize) as a function.     *)
(*                                                                         *)
(* A source text is a sequence of characters (one-character strings).  The *)
(* scanner is modelled loop iteration by loop iteration; the parser's      *)
(* recursive-descent functions are RECURSIVE operators over (tokens,       *)
(* current) and its top-level loop is modelled iteration by iteration.     *)
(***************************************************************************)
EXTENDS Naturals, Sequences, FiniteSets, TLC

VARIABLES
    input,        \* the &str handed to Tokenizer::new
    pos,          \* Tokenizer.chars: index of the character peek() returns
    tokens,       \* Tokenizer.tokens
    line,         \* Tokenizer.line
    has_error,    \* Tokenizer.has_error
    tpc,          \* where the scanner is: new, main, number, identifier,
                  \* string, comment, returned
    number,       \* handle_number: number
    has_decimal,  \* handle_number: has_decimal
    identifier,   \* handle_identifier: identifier
    string,       \* handle_string: string
    start_line,   \* handle_string: start_line
    returned,     \* what each call of Tokenizer::tokenize returned, in order
    p_tokens,     \* Parser.tokens
    current,      \* Parser.current
    output,       \* parse: output
    ppc,          \* where the parser is: none, new, loop, returned
    presults,     \* what each call of Parser::parse returned, in order
    ast,          \* the reference tree the input was written from (or NoTree)
    cut,          \* how many of that tree's tokens the input keeps
    m_returned    \* what main.rs's tokenize(input) returned, once called

tvars == <<input, pos, tokens, line, has_error, tpc, number, has_decimal,
           identifier, string, start_line, returned>>
pvars == <<p_tokens, current, output, ppc, presults>>
ivars == <<ast, cut, m_returned>>
vars == <<tvars, pvars, ivars>>

(***************************************************************************)
(* Bounds of the model.                                                    *)
(***************************************************************************)
MaxPieces == 3
MaxOps == 2
MaxCalls == 2
FairPieces == 2
FairOps == 1

(***************************************************************************)
(* Characters.                                                             *)
(***************************************************************************)
NoChar == ""
Digits == {"0", "1", "2", "3", "4", "5", "6", "7", "8", "9"}
Lower == {"a", "b", "c", "d", "e", "f", "g", "h", "i", "j", "k", "l", "m",
          "n", "o", "p", "q", "r", "s", "t", "u", "v", "w", "x", "y", "z"}
Upper == {"A", "B", "C", "D", "E", "F", "G", "H", "I", "J", "K", "L", "M",
          "N", "O", "P", "Q", "R", "S", "T", "U", "V", "W", "X", "Y", "Z"}

is_ascii_digit(c) == c \in Digits
\* char::is_alphanumeric, on the ASCII characters the model's inputs hold
is_alphanumeric(c) == c \in Digits \cup Lower \cup Upper
IdentifierStart(c) == c \in Lower \cup Upper \cup {"_"}

(***************************************************************************)
(* Lexeme (src/lexeme.rs).  One record shape for every variant: s is the   *)
(* String payload, n the f64 payload, op the MathOp, line the usize and c  *)
(* the char payload; a variant leaves the fields it does not carry at      *)
(* their defaults.                                                         *)
(***************************************************************************)
NoNum == [ip |-> 0, fp |-> <<>>]
Lex(k) == [kind |-> k, s |-> <<>>, n |-> NoNum, op |-> "", line |-> 0, c |-> NoChar]
Eof == Lex("Eof")
Operator(o) == [Lex("Operator") EXCEPT !.op = o]
Keyword(w) == [Lex("Keyword") EXCEPT !.s = w]
Identifier(w) == [Lex("Identifier") EXCEPT !.s = w]
String(w) == [Lex("String") EXCEPT !.s = w]
Number(w, v) == [Lex("Number") EXCEPT !.s = w, !.n = v]
UnexpectedCharError(l, ch) == [Lex("UnexpectedCharError") EXCEPT !.line = l, !.c = ch]
UnterminatedStringError(l) == [Lex("UnterminatedStringError") EXCEPT !.line = l]

(***************************************************************************)
(* f64.  The value of a decimal text digits[.digits] is kept as its        *)
(* integer part and its fraction digits without trailing zeros, which is   *)
(* exact as long as the text has fewer significant digits than an f64      *)
(* holds (the model's texts have at most a handful).                       *)
(***************************************************************************)
DigitVal(c) ==
    CASE c = "0" -> 0 [] c = "1" -> 1 [] c = "2" -> 2 [] c = "3" -> 3
      [] c = "4" -> 4 [] c = "5" -> 5 [] c = "6" -> 6 [] c = "7" -> 7
      [] c = "8" -> 8 [] c = "9" -> 9
DigitChar(d) == <<"0", "1", "2", "3", "4", "5", "6", "7", "8", "9">>[d + 1]

RECURSIVE IntOf(_)
IntOf(ds) ==
    IF ds = <<>> THEN 0
    ELSE 10 * IntOf(SubSeq(ds, 1, Len(ds) - 1)) + DigitVal(ds[Len(ds)])

RECURSIVE StripZeros(_)
StripZeros(ds) ==
    IF ds # <<>> /\ ds[Len(ds)] = "0" THEN StripZeros(SubSeq(ds, 1, Len(ds) - 1))
    ELSE ds

DotIndex(w) ==
    IF \E i \in 1..Len(w) : w[i] = "." THEN CHOOSE i \in 1..Len(w) : w[i] = "."
    ELSE Len(w) + 1

\* str::parse::<f64> on the texts handle_number builds
ParseF64(w) ==
    [ip |-> IntOf(SubSeq(w, 1, DotIndex(w) - 1)),
     fp |-> StripZeros(SubSeq(w, DotIndex(w) + 1, Len(w)))]

RECURSIVE NatToChars(_)
NatToChars(k) ==
    IF k < 10 THEN <<DigitChar(k)>>
    ELSE NatToChars(k \div 10) \o <<DigitChar(k % 10)>>

fract_is_zero(v) == v.fp = <<>>

(***************************************************************************)
(* Scanner helpers.                                                        *)
(***************************************************************************)
AtEnd == pos > Len(input)
peek_char == IF pos <= Len(input) THEN input[pos] ELSE NoChar
\* self.chars.clone().nth(1)
nth1 == IF pos + 1 <= Len(input) THEN input[pos + 1] ELSE NoChar

KW_and == <<"a", "n", "d">>
KW_class == <<"c", "l", "a", "s", "s">>
KW_else == <<"e", "l", "s", "e">>
KW_false == <<"f", "a", "l", "s", "e">>
KW_for == <<"f", "o", "r">>
KW_fun == <<"f", "u", "n">>
KW_if == <<"i", "f">>
KW_let == <<"l", "e", "t">>
KW_nil == <<"n", "i", "l">>
KW_or == <<"o", "r">>
KW_return == <<"r", "e", "t", "u", "r", "n">>
KW_super == <<"s", "u", "p", "e", "r">>
KW_this == <<"t", "h", "i", "s">>
KW_true == <<"t", "r", "u", "e">>
KW_var == <<"v", "a", "r">>
KW_while == <<"w", "h", "i", "l", "e">>
KW_print == <<"p", "r", "i", "n", "t">>

\* the words of handle_identifier's match arm
ReservedWords ==
    {KW_and, KW_class, KW_else, KW_false, KW_for, KW_fun, KW_if, KW_let, KW_nil,
     KW_or, KW_return, KW_super, KW_this, KW_true, KW_var, KW_while, KW_print}

\* the arms of tokenize's match that call add_token with a fixed lexeme
AddTokenChars == {"(", ")", "{", "}", ",", ".", ";", "+", "-", "*"}
AddTokenLexeme(c) ==
    CASE c = "(" -> Lex("LeftParen")
      [] c = ")" -> Lex("RightParen")
      [] c = "{" -> Lex("LeftBrace")
      [] c = "}" -> Lex("RightBrace")
      [] c = "," -> Lex("Comma")
      [] c = "." -> Lex("Dot")
      [] c = ";" -> Lex("Semicolon")
      [] c = "+" -> Operator("Plus")
      [] c = "-" -> Operator("Minus")
      [] c = "*" -> Operator("Star")

\* every character some arm other than the catch-all matches
MatchedChars ==
    {" ", "\t", "\r", "\n", "=", "!", "<", ">", "\"", "/"}
        \cup AddTokenChars \cup Digits \cup Lower \cup Upper \cup {"_"}

(***************************************************************************)
(* Tokenizer::tokenize, one action per arm of the main loop's match and    *)
(* one per iteration of a handler's inner loop.                            *)
(***************************************************************************)
TLocals == <<number, has_decimal, identifier, string, start_line>>
TKeep == <<input, returned>>

\* a caller calls tokenize on the Tokenizer; the borrow the Parser holds on
\* the returned slice rules out a call once a Parser exists
TokenizeCall ==
    /\ tpc \in {"new", "returned"}
    /\ ppc = "none"
    /\ Len(returned) < MaxCalls
    /\ tpc' = "main"
    /\ UNCHANGED <<pos, tokens, line, has_error, TLocals, TKeep, pvars, ivars>>

SkipBlank ==
    /\ tpc = "main"
    /\ peek_char \in {" ", "\t", "\r"}
    /\ pos' = pos + 1
    /\ UNCHANGED <<tokens, line, has_error, tpc, TLocals, TKeep, pvars, ivars>>

Newline ==
    /\ tpc = "main"
    /\ peek_char = "\n"
    /\ pos' = pos + 1
    /\ line' = line + 1
    /\ UNCHANGED <<tokens, has_error, tpc, TLocals, TKeep, pvars, ivars>>

AddTokenNoNext ==
    /\ tpc = "main"
    /\ peek_char \in AddTokenChars
    /\ tokens' = Append(tokens, AddTokenLexeme(peek_char))
    /\ UNCHANGED <<pos, line, has_error, tpc, TLocals, TKeep, pvars, ivars>>

add_token ==
    /\ tpc = "main"
    /\ peek_char \in AddTokenChars
    /\ tokens' = Append(tokens, AddTokenLexeme(peek_char))
    /\ pos' = pos + 1
    /\ UNCHANGED <<line, has_error, tpc, TLocals, TKeep, pvars, ivars>>

\* the body handle_equal, handle_bang, handle_less and handle_greater share:
\* the first character is consumed, the second only when it is '='
TwoChar(single, double) ==
    IF nth1 = "="
    THEN tokens' = Append(tokens, Lex(double)) /\ pos' = pos + 2
    ELSE tokens' = Append(tokens, Lex(single)) /\ pos' = pos + 1

handle_equal ==
    /\ tpc = "main"
    /\ peek_char = "="
    /\ TwoChar("Equal", "EqualEqual")
    /\ UNCHANGED <<line, has_error, tpc, TLocals, TKeep, pvars, ivars>>

handle_bang ==
    /\ tpc = "main"
    /\ peek_char = "!"
    /\ TwoChar("Bang", "BangEqual")
    /\ UNCHANGED <<line, has_error, tpc, TLocals, TKeep, pvars, ivars>>

handle_less ==
    /\ tpc = "main"
    /\ peek_char = "<"
    /\ TwoChar("Less", "LessEqual")
    /\ UNCHANGED <<line, has_error, tpc, TLocals, TKeep, pvars, ivars>>

handle_greater ==
    /\ tpc = "main"
    /\ peek_char = ">"
    /\ TwoChar("Greater", "GreaterEqual")
    /\ UNCHANGED <<line, has_error, tpc, TLocals, TKeep, pvars, ivars>>

\* handle_number up to its loop
handle_number ==
    /\ tpc = "main"
    /\ peek_char \in Digits
    /\ tpc' = "number"
    /\ number' = <<>>
    /\ has_decimal' = FALSE
    /\ UNCHANGED <<pos, tokens, line, has_error, identifier, string, start_line,
                   TKeep, pvars, ivars>>

DotFollowedByDigitPeek == is_ascii_digit(peek_char)
\* self.chars.clone().nth(1).map_or(false, |next| next.is_ascii_digit())
DotFollowedByDigit == is_ascii_digit(nth1)

\* the tokens handle_number pushes after its loop, and the cursor it leaves
NumberTokens ==
    IF peek_char = "."
    THEN <<Number(number, ParseF64(number)), Lex("Dot")>>
    ELSE <<Number(number, ParseF64(number))>>

\* one iteration of handle_number's loop; the iteration that breaks runs
\* the rest of the handler
NumberLoop ==
    /\ tpc = "number"
    /\ IF peek_char \in Digits \/ (peek_char = "." /\ ~has_decimal /\ DotFollowedByDigit)
       THEN /\ number' = Append(number, peek_char)
            /\ has_decimal' = (has_decimal \/ peek_char = ".")
            /\ pos' = pos + 1
            /\ UNCHANGED <<tokens, tpc>>
       ELSE /\ tokens' = tokens \o NumberTokens
            /\ pos' = IF peek_char = "." THEN pos + 1 ELSE pos
            /\ tpc' = "main"
            /\ UNCHANGED <<number, has_decimal>>
    /\ UNCHANGED <<line, has_error, identifier, string, start_line, TKeep, pvars, ivars>>

handle_identifier ==
    /\ tpc = "main"
    /\ IdentifierStart(peek_char)
    /\ tpc' = "identifier"
    /\ identifier' = <<>>
    /\ UNCHANGED <<pos, tokens, line, has_error, number, has_decimal, string,
                   start_line, TKeep, pvars, ivars>>

\* the match on identifier.as_str()
IdentifierLexeme(w) == IF w \in ReservedWords THEN Keyword(w) ELSE Identifier(w)

IdentifierLoop ==
    /\ tpc = "identifier"
    /\ IF is_alphanumeric(peek_char) \/ peek_char = "_"
       THEN /\ identifier' = Append(identifier, peek_char)
            /\ pos' = pos + 1
            /\ UNCHANGED <<tokens, tpc>>
       ELSE /\ tokens' = Append(tokens, IdentifierLexeme(identifier))
            /\ tpc' = "main"
            /\ UNCHANGED <<identifier, pos>>
    /\ UNCHANGED <<line, has_error, number, has_decimal, string, start_line,
                   TKeep, pvars, ivars>>

\* handle_string up to its loop: the opening quote is consumed
handle_string ==
    /\ tpc = "main"
    /\ peek_char = "\""
    /\ pos' = pos + 1
    /\ string' = <<>>
    /\ start_line' = line
    /\ tpc' = "string"
    /\ UNCHANGED <<tokens, line, has_error, number, has_decimal, identifier,
                   TKeep, pvars, ivars>>

StringLineKeep(d, l) == l
\* else if d == '\n' { self.line += 1; }
StringLine(d, l) == IF d = "\n" THEN l + 1 ELSE l

UnterminatedAtCurrentLine == UnterminatedStringError(line)
\* Lexeme::UnterminatedStringError(start_line)
UnterminatedLexeme == UnterminatedStringError(start_line)

\* one iteration of handle_string's loop; the closing quote and the end of
\* input leave the loop and run the rest of the handler
StringLoop ==
    /\ tpc = "string"
    /\ IF AtEnd
       THEN /\ tokens' = Append(tokens, UnterminatedLexeme)
            /\ has_error' = TRUE
            /\ tpc' = "main"
            /\ UNCHANGED <<pos, line, string>>
       ELSE IF peek_char = "\""
       THEN /\ pos' = pos + 1
            /\ tokens' = Append(tokens, String(string))
            /\ tpc' = "main"
            /\ UNCHANGED <<line, has_error, string>>
       ELSE /\ line' = StringLine(peek_char, line)
            /\ string' = Append(string, peek_char)
            /\ pos' = pos + 1
            /\ UNCHANGED <<tokens, has_error, tpc>>
    /\ UNCHANGED <<number, has_decimal, identifier, start_line, TKeep, pvars, ivars>>

\* handle_slash: "//" starts a comment, a lone '/' is the Slash operator
handle_slash ==
    /\ tpc = "main"
    /\ peek_char = "/"
    /\ IF nth1 = "/"
       THEN pos' = pos + 2 /\ tpc' = "comment" /\ UNCHANGED tokens
       ELSE tokens' = Append(tokens, Operator("Slash")) /\ pos' = pos + 1
            /\ UNCHANGED tpc
    /\ UNCHANGED <<line, has_error, TLocals, TKeep, pvars, ivars>>

\* one iteration of the comment loop: the newline is left for the main loop
CommentLoop ==
    /\ tpc = "comment"
    /\ IF AtEnd \/ peek_char = "\n"
       THEN tpc' = "main" /\ UNCHANGED pos
       ELSE pos' = pos + 1 /\ UNCHANGED tpc
    /\ UNCHANGED <<tokens, line, has_error, TLocals, TKeep, pvars, ivars>>

UnexpectedCharStops ==
    /\ tpc = "main"
    /\ ~AtEnd
    /\ peek_char \notin MatchedChars
    /\ tokens' = Append(tokens, UnexpectedCharError(line, peek_char))
    /\ has_error' = TRUE
    /\ pos' = Len(input) + 1
    /\ UNCHANGED <<line, tpc, TLocals, TKeep, pvars, ivars>>
\* the catch-all arm
UnexpectedChar ==
    /\ tpc = "main"
    /\ ~AtEnd
    /\ peek_char \notin MatchedChars
    /\ tokens' = Append(tokens, UnexpectedCharError(line, peek_char))
    /\ has_error' = TRUE
    /\ pos' = pos + 1
    /\ UNCHANGED <<line, tpc, TLocals, TKeep, pvars, ivars>>

EndOfInputNone(toks) == toks
\* self.tokens.push(Lexeme::Eof)
EndOfInput(toks) == Append(toks, Eof)

\* Err(&self.tokens) or Ok(&self.tokens)
TokenizeResult(toks, err) == [ok |-> ~err, tokens |-> toks]

\* the main loop ends: the Eof is pushed and the call returns
TokenizeReturn ==
    /\ tpc = "main"
    /\ AtEnd
    /\ tokens' = EndOfInput(tokens)
    /\ returned' = Append(returned, TokenizeResult(tokens', has_error))
    /\ tpc' = "returned"
    /\ UNCHANGED <<input, pos, line, has_error, TLocals, pvars, ivars>>

NextScan ==
    \/ TokenizeCall
    \/ SkipBlank
    \/ Newline
    \/ add_token
    \/ handle_equal
    \/ handle_bang
    \/ handle_less
    \/ handle_greater
    \/ handle_number
    \/ NumberLoop
    \/ handle_identifier
    \/ IdentifierLoop
    \/ handle_string
    \/ StringLoop
    \/ handle_slash
    \/ CommentLoop
    \/ UnexpectedChar
    \/ TokenizeReturn

(***************************************************************************)
(* Parser (src/parser.rs).  current counts from 0 as in the source, so the *)
(* token under the cursor is toks[current + 1].  A function of the parser  *)
(* is an operator from the token slice and the cursor to a result record:  *)
(* ok, the rendered text val (Ok) or the ParserError err (Err), the cursor *)
(* the call leaves in self.current, and at, the cursor at which the        *)
(* failing step was attempted (history only).                              *)
(***************************************************************************)
NoTok == Lex("None")
NoErr == [kind |-> "", tok |-> NoTok]
UnexpectedToken(t) == [kind |-> "UnexpectedToken", tok |-> t]
UnmatchedParentheses == [kind |-> "UnmatchedParentheses", tok |-> NoTok]
ExpectedToken(t) == [kind |-> "ExpectedToken", tok |-> t]
EmptyGrouping == [kind |-> "EmptyGrouping", tok |-> NoTok]
InvalidUnaryOperator(t) == [kind |-> "InvalidUnaryOperator", tok |-> t]
\* an index out of the slice's bounds: the thread panics
Panic == [kind |-> "panic", tok |-> NoTok]

POk(v, c) == [ok |-> TRUE, val |-> v, err |-> NoErr, current |-> c, at |-> c]
PErr(e, c, a) == [ok |-> FALSE, val |-> <<>>, err |-> e, current |-> c, at |-> a]

peek(toks, c) == toks[c + 1]
is_at_end(toks, c) == peek(toks, c).kind = "Eof"
\* the cursor advance() leaves; the lexeme it returns is previous() there
advance(toks, c) == IF ~is_at_end(toks, c) THEN c + 1 ELSE c
previous(toks, c) == toks[c]

Chars_true == KW_true
Chars_false == KW_false
Chars_nil == KW_nil
Chars_unknown == <<"u", "n", "k", "n", "o", "w", "n">>

\* format!("{:.1}", n) for a value without fraction, n.to_string() otherwise
FormatNumber(v) ==
    IF fract_is_zero(v) THEN NatToChars(v.ip) \o <<".", "0">>
    ELSE NatToChars(v.ip) \o <<".">> \o v.fp

FormatBinarySwapped(sym, expr, right) ==
    <<"(">> \o sym \o <<" ">> \o right \o <<" ">> \o expr \o <<")">>
\* format!("(<sym> {} {})", expr, right)
FormatBinary(sym, expr, right) ==
    <<"(">> \o sym \o <<" ">> \o expr \o <<" ">> \o right \o <<")">>
\* format!("(<sym> {})", right)
FormatUnary(sym, right) == <<"(">> \o sym \o <<" ">> \o right \o <<")">>

\* expressions.join(", ")
RECURSIVE Join(_)
Join(list) ==
    IF Len(list) = 1 THEN list[1]
    ELSE list[1] \o <<",", " ">> \o Join(Tail(list))
\* format!("(group {})", expressions.join(", "))
FormatGroup(list) == <<"(", "g", "r", "o", "u", "p", " ">> \o Join(list) \o <<")">>

parse_literal(toks, c) ==
    LET c1 == advance(toks, c) IN
    IF c1 = 0 THEN PErr(Panic, c1, c)
    ELSE LET t == previous(toks, c1) IN
         CASE t.kind = "Keyword" ->
                POk(IF t.s \in {Chars_true, Chars_false, Chars_nil} THEN t.s
                    ELSE Chars_unknown, c1)
           [] t.kind = "Number" -> POk(FormatNumber(t.n), c1)
           [] t.kind = "String" -> POk(t.s, c1)
           [] OTHER -> PErr(UnexpectedToken(t), c1, c)

ConsumeNoEofArm(toks, c, expected) ==
    IF peek(toks, c) = expected THEN POk(<<>>, advance(toks, c))
    ELSE PErr(ExpectedToken(expected), c, c)
consume(toks, c, expected) ==
    IF peek(toks, c) = expected THEN POk(<<>>, advance(toks, c))
    ELSE IF peek(toks, c).kind = "Eof" THEN PErr(UnmatchedParentheses, c, c)
    ELSE PErr(ExpectedToken(expected), c, c)

IsEqualityOp(t) == t.kind \in {"EqualEqual", "BangEqual"}
IsComparisonOp(t) == t.kind \in {"Greater", "Less", "GreaterEqual", "LessEqual"}
IsTermOp(t) == t.kind = "Operator" /\ t.op \in {"Plus", "Minus"}
IsFactorOp(t) == t.kind = "Operator" /\ t.op \in {"Star", "Slash"}
IsUnaryOp(t) == t.kind = "Bang" \/ (t.kind = "Operator" /\ t.op = "Minus")

\* the operator's text in the arms of the match on operator
OperatorSymbol(t) ==
    CASE t.kind = "EqualEqual" -> <<"=", "=">>
      [] t.kind = "BangEqual" -> <<"!", "=">>
      [] t.kind = "Greater" -> <<">">>
      [] t.kind = "Less" -> <<"<">>
      [] t.kind = "GreaterEqual" -> <<">", "=">>
      [] t.kind = "LessEqual" -> <<"<", "=">>
      [] t.kind = "Bang" -> <<"!">>
      [] t.kind = "Operator" /\ t.op = "Plus" -> <<"+">>
      [] t.kind = "Operator" /\ t.op = "Minus" -> <<"-">>
      [] t.kind = "Operator" /\ t.op = "Star" -> <<"*">>
      [] t.kind = "Operator" /\ t.op = "Slash" -> <<"/">>

RECURSIVE parse_equality(_, _), equality_loop(_, _, _),
          parse_comparison(_, _), comparison_loop(_, _, _),
          parse_term(_, _), term_loop(_, _, _),
          parse_factor(_, _), factor_loop(_, _, _),
          parse_unary(_, _), parse_grouping(_, _),
          parse_grouped_expressions(_, _, _)

parse_expression(toks, c) == parse_equality(toks, c)

\* the ? on a callee's result, then the rest of the caller: a failed result
\* is returned as it is
equality_fold(toks, expr, operator, right) ==
    IF ~right.ok THEN right
    ELSE equality_loop(toks, FormatBinary(OperatorSymbol(operator), expr, right.val),
                       right.current)
\* the while loop of parse_equality, entered with expr parsed up to c
equality_loop(toks, expr, c) ==
    IF IsEqualityOp(peek(toks, c))
    THEN equality_fold(toks, expr, previous(toks, advance(toks, c)),
                       parse_comparison(toks, advance(toks, c)))
    ELSE POk(expr, c)
equality_first(toks, left) ==
    IF ~left.ok THEN left ELSE equality_loop(toks, left.val, left.current)
parse_equality(toks, c) == equality_first(toks, parse_comparison(toks, c))

comparison_fold(toks, expr, operator, right) ==
    IF ~right.ok THEN right
    ELSE comparison_loop(toks, FormatBinary(OperatorSymbol(operator), expr, right.val),
                         right.current)
comparison_loop(toks, expr, c) ==
    IF IsComparisonOp(peek(toks, c))
    THEN comparison_fold(toks, expr, previous(toks, advance(toks, c)),
                         parse_term(toks, advance(toks, c)))
    ELSE POk(expr, c)
comparison_first(toks, left) ==
    IF ~left.ok THEN left ELSE comparison_loop(toks, left.val, left.current)
parse_comparison(toks, c) == comparison_first(toks, parse_term(toks, c))

term_fold(toks, expr, operator, right) ==
    IF ~right.ok THEN right
    ELSE term_loop(toks, FormatBinary(OperatorSymbol(operator), expr, right.val),
                   right.current)
term_loop(toks, expr, c) ==
    IF IsTermOp(peek(toks, c))
    THEN term_fold(toks, expr, previous(toks, advance(toks, c)),
                   parse_factor(toks, advance(toks, c)))
    ELSE POk(expr, c)
term_first(toks, left) ==
    IF ~left.ok THEN left ELSE term_loop(toks, left.val, left.current)
parse_term(toks, c) == term_first(toks, parse_factor(toks, c))

factor_fold(toks, expr, operator, right) ==
    IF ~right.ok THEN right
    ELSE factor_loop(toks, FormatBinary(OperatorSymbol(operator), expr, right.val),
                     right.current)
factor_loop(toks, expr, c) ==
    IF IsFactorOp(peek(toks, c))
    THEN factor_fold(toks, expr, previous(toks, advance(toks, c)),
                     parse_unary(toks, advance(toks, c)))
    ELSE POk(expr, c)
factor_first(toks, left) ==
    IF ~left.ok THEN left ELSE factor_loop(toks, left.val, left.current)
parse_factor(toks, c) == factor_first(toks, parse_unary(toks, c))

\* the match on operator once the operand is parsed
unary_fold(c, operator, right) ==
    IF ~right.ok THEN right
    ELSE IF IsUnaryOp(operator)
    THEN POk(FormatUnary(OperatorSymbol(operator), right.val), right.current)
    ELSE PErr(InvalidUnaryOperator(operator), right.current, c)
parse_unary(toks, c) ==
    IF IsUnaryOp(peek(toks, c))
    THEN unary_fold(c, previous(toks, advance(toks, c)),
                    parse_unary(toks, advance(toks, c)))
    ELSE IF peek(toks, c).kind = "LeftParen" THEN parse_grouping(toks, c)
    ELSE parse_literal(toks, c)

\* an element of the list is parsed: without a comma after it the loop
\* breaks, with one the comma is consumed and the loop goes on
grouped_next(toks, expressions, e) ==
    IF ~e.ok THEN e
    ELSE IF peek(toks, e.current) # Lex("Comma")
    THEN POk(Append(expressions, e.val), e.current)
    ELSE parse_grouped_expressions(toks, advance(toks, e.current),
                                   Append(expressions, e.val))
\* the loop of parse_grouped_expressions, entered with expressions parsed
\* up to c; val of the result is the list of rendered expressions
parse_grouped_expressions(toks, c, expressions) ==
    IF peek(toks, c).kind = "RightParen" THEN POk(expressions, c)
    ELSE IF peek(toks, c).kind = "Eof" THEN PErr(UnmatchedParentheses, c, c)
    ELSE grouped_next(toks, expressions, parse_expression(toks, c))

\* self.consume(Lexeme::RightParen)?, then the rendering
grouping_close(g, k) == IF ~k.ok THEN k ELSE POk(FormatGroup(g.val), k.current)
grouping_rest(toks, g) ==
    IF ~g.ok THEN g
    ELSE IF g.val = <<>> THEN PErr(EmptyGrouping, g.current, g.current)
    ELSE grouping_close(g, consume(toks, g.current, Lex("RightParen")))
parse_grouping(toks, c) ==
    grouping_rest(toks, parse_grouped_expressions(toks, advance(toks, c), <<>>))

\* what a call of parse hands back: Ok(output) or Err(error)
ParseOk(out) == [ok |-> TRUE, val |-> out, err |-> NoErr, at |-> 0]
ParseErr(r) == [ok |-> FALSE, val |-> <<>>, err |-> r.err, at |-> r.at]

\* Parser::new over the slice the last call of tokenize returned
ParserNew ==
    /\ tpc = "returned"
    /\ ppc = "none"
    /\ p_tokens' = returned[Len(returned)].tokens
    /\ current' = 0
    /\ ppc' = "new"
    /\ UNCHANGED <<tvars, output, presults, ivars>>

\* a caller calls parse on the Parser
ParseCall ==
    /\ ppc \in {"new", "returned"}
    /\ Len(presults) < MaxCalls
    /\ output' = <<>>
    /\ ppc' = "loop"
    /\ UNCHANGED <<tvars, p_tokens, current, presults, ivars>>

\* one iteration of parse's loop, r being what parse_expression returned;
\* the ? returns the error
ParseStep(r) ==
    /\ current' = r.current
    /\ IF r.ok
       THEN /\ output' = output \o r.val \o <<"\n">>
            /\ UNCHANGED <<ppc, presults>>
       ELSE /\ presults' = Append(presults, ParseErr(r))
            /\ ppc' = "returned"
            /\ UNCHANGED output

ParseIterate ==
    /\ ppc = "loop"
    /\ ~is_at_end(p_tokens, current)
    /\ ParseStep(parse_expression(p_tokens, current))
    /\ UNCHANGED <<tvars, p_tokens, ivars>>

\* the loop ends at the Eof: Ok(output)
ParseReturn ==
    /\ ppc = "loop"
    /\ is_at_end(p_tokens, current)
    /\ presults' = Append(presults, ParseOk(output))
    /\ ppc' = "returned"
    /\ UNCHANGED <<tvars, p_tokens, current, output, ivars>>

NextParse ==
    \/ ParserNew
    \/ ParseCall
    \/ ParseIterate
    \/ ParseReturn

Next == NextScan \/ NextParse

(***************************************************************************)
(* The reference grammar: expression trees, the token texts a tree is      *)
(* written as, and its rendering.  Levels, loosest first: 0 equality,      *)
(* 1 comparison, 2 term, 3 factor, 4 unary, 5 primary (literal, group).    *)
(* A binary node of level L takes a left operand of level >= L and a right *)
(* operand of level > L; a unary node takes an operand of level >= 4; the  *)
(* elements of a group are of any level.                                   *)
(***************************************************************************)
NoTree == [node |-> "none", op |-> <<>>, kids |-> <<>>, lit |-> 0]
Leaf(i) == [node |-> "lit", op |-> <<>>, kids |-> <<>>, lit |-> i]
Un(o, t) == [node |-> "un", op |-> o, kids |-> <<t>>, lit |-> 0]
Bin(o, l, r) == [node |-> "bin", op |-> o, kids |-> <<l, r>>, lit |-> 0]
Group(ts) == [node |-> "group", op |-> <<>>, kids |-> ts, lit |-> 0]

\* the literals the leaves are written as, in the order of the leaves, and
\* the text the grammar renders each as
Literals ==
    << [src |-> <<"1">>, out |-> <<"1", ".", "0">>],
       [src |-> <<"2", ".", "5", "0">>, out |-> <<"2", ".", "5">>],
       [src |-> <<"t", "r", "u", "e">>, out |-> <<"t", "r", "u", "e">>],
       [src |-> <<"\"", "a", "b", "\"">>, out |-> <<"a", "b">>],
       [src |-> <<"n", "i", "l">>, out |-> <<"n", "i", "l">>],
       [src |-> <<"0", "7">>, out |-> <<"7", ".", "0">>] >>
LiteralAt(i) == Literals[((i - 1) % Len(Literals)) + 1]

BinaryOps(level) ==
    CASE level = 0 -> {<<"=", "=">>, <<"!", "=">>}
      [] level = 1 -> {<<">">>, <<"<">>, <<">", "=">>, <<"<", "=">>}
      [] level = 2 -> {<<"+">>, <<"-">>}
      [] level = 3 -> {<<"*">>, <<"/">>}
UnaryOps == {<<"!">>, <<"-">>}

RECURSIVE NumLeaves(_)
NumLeaves(t) ==
    IF t.node = "lit" THEN 1
    ELSE IF Len(t.kids) = 1 THEN NumLeaves(t.kids[1])
    ELSE NumLeaves(t.kids[1]) + NumLeaves(t.kids[2])

\* the trees with exactly k operator nodes (unary, binary, group) whose root
\* is of level >= minLevel and whose leaves are numbered from first on
RECURSIVE Gen(_, _, _)
Gen(k, minLevel, first) ==
    IF k = 0 THEN {Leaf(first)}
    ELSE
      {Group(<<t>>) : t \in Gen(k - 1, 0, first)}
      \cup UNION { UNION { {Group(<<l, r>>) : r \in Gen(k - 1 - j, 0, first + NumLeaves(l))}
                           : l \in Gen(j, 0, first) } : j \in 0..(k - 1) }
      \cup (IF minLevel <= 4
            THEN {Un(o, t) : o \in UnaryOps, t \in Gen(k - 1, 4, first)}
            ELSE {})
      \cup UNION { UNION { UNION { {Bin(o, l, r) :
                                       o \in BinaryOps(lv),
                                       r \in Gen(k - 1 - j, lv + 1, first + NumLeaves(l))}
                                   : l \in Gen(j, lv, first) }
                           : j \in 0..(k - 1) }
                   : lv \in {x \in 0..3 : x >= minLevel} }

Trees(maxOps) == UNION {Gen(k, 0, 1) : k \in 0..maxOps}

\* the token texts of a tree, in source order
RECURSIVE TreeTokens(_)
TreeTokens(t) ==
    CASE t.node = "lit" -> <<LiteralAt(t.lit).src>>
      [] t.node = "un" -> <<t.op>> \o TreeTokens(t.kids[1])
      [] t.node = "bin" -> TreeTokens(t.kids[1]) \o <<t.op>> \o TreeTokens(t.kids[2])
      [] t.node = "group" ->
            IF Len(t.kids) = 1
            THEN <<(<<"(">>)>> \o TreeTokens(t.kids[1]) \o <<(<<")">>)>>
            ELSE <<(<<"(">>)>> \o TreeTokens(t.kids[1]) \o <<(<<",">>)>>
                     \o TreeTokens(t.kids[2]) \o <<(<<")">>)>>

\* the rendering of a tree
RECURSIVE Render(_)
Render(t) ==
    CASE t.node = "lit" -> LiteralAt(t.lit).out
      [] t.node = "un" -> <<"(">> \o t.op \o <<" ">> \o Render(t.kids[1]) \o <<")">>
      [] t.node = "bin" ->
            <<"(">> \o t.op \o <<" ">> \o Render(t.kids[1]) \o <<" ">>
                \o Render(t.kids[2]) \o <<")">>
      [] t.node = "group" ->
            IF Len(t.kids) = 1
            THEN <<"(", "g", "r", "o", "u", "p", " ">> \o Render(t.kids[1]) \o <<")">>
            ELSE <<"(", "g", "r", "o", "u", "p", " ">> \o Render(t.kids[1])
                     \o <<",", " ">> \o Render(t.kids[2]) \o <<")">>

\* token texts written as a source text, one space between two tokens
RECURSIVE SourceOf(_)
SourceOf(texts) ==
    IF texts = <<>> THEN <<>>
    ELSE IF Len(texts) = 1 THEN texts[1]
    ELSE texts[1] \o <<" ">> \o SourceOf(Tail(texts))

(***************************************************************************)
(* The source texts the model scans: every text put together from at most  *)
(* MaxPieces pieces, and every reference tree of at most MaxOps operator   *)
(* nodes written out and cut off after any number of its tokens.           *)
(***************************************************************************)
Pieces ==
    { <<" ">>, <<"\n">>, <<"\"">>, <<"\"", "\n">>, <<"/", "/">>, <<".", "5">>,
      <<"1">>, <<".">>, <<"@">>, <<"(">>, <<"+">>, <<"=">>, <<"!">>, KW_let,
      KW_print, <<"_", "T">> }

RECURSIVE PieceSources(_)
PieceSources(k) ==
    IF k = 0 THEN {<<>>}
    ELSE PieceSources(k - 1)
           \cup {s \o p : s \in PieceSources(k - 1), p \in Pieces}

\* Tokenizer::new(input); no Parser yet
Constructed ==
    /\ pos = 1
    /\ tokens = <<>>
    /\ line = 1
    /\ has_error = FALSE
    /\ tpc = "new"
    /\ number = <<>>
    /\ has_decimal = FALSE
    /\ identifier = <<>>
    /\ string = <<>>
    /\ start_line = 0
    /\ returned = <<>>
    /\ p_tokens = <<>>
    /\ current = 0
    /\ output = <<>>
    /\ ppc = "none"
    /\ presults = <<>>
    /\ m_returned = <<>>

\* the texts of at most k pieces
PiecesUpTo(k) ==
    /\ ast = NoTree
    /\ cut = 0
    /\ input \in PieceSources(k)
    /\ Constructed

\* the trees of at most k operator nodes, cut off anywhere
TreesUpTo(k) ==
    /\ ast \in Trees(k)
    /\ cut \in 0..Len(TreeTokens(ast))
    /\ input = SourceOf(SubSeq(TreeTokens(ast), 1, cut))
    /\ Constructed

InitPieces == PiecesUpTo(MaxPieces)

InitTrees == TreesUpTo(MaxOps)

Init == InitPieces \/ InitTrees

Spec == Init /\ [][Next]_vars

\* the steps of a call of tokenize that is under way, and of a call of parse
\* that is under way: the thread that made the call runs them to the return
TokenizeRun ==
    \/ SkipBlank \/ Newline \/ add_token \/ handle_equal \/ handle_bang
    \/ handle_less \/ handle_greater \/ handle_number \/ NumberLoop
    \/ handle_identifier \/ IdentifierLoop \/ handle_string \/ StringLoop
    \/ handle_slash \/ CommentLoop \/ UnexpectedChar \/ TokenizeReturn
ParseRun == ParseIterate \/ ParseReturn

\* the source texts of the fair specification
InitFair == PiecesUpTo(FairPieces) \/ TreesUpTo(FairOps)

\* a call that was made keeps running: weak fairness of the steps of a call
\* under way; which calls are made is up to the caller.  ParseRun is enabled
\* exactly when ppc = "loop" (one of the two guards holds there, and either
\* step changes output, presults or ppc), and its weak fairness is written
\* out with that state predicate in the place of ENABLED <<ParseRun>>_vars.
FairSpec ==
    /\ InitFair
    /\ [][Next]_vars
    /\ WF_vars(TokenizeRun)
    /\ ([]<>(ppc # "loop") \/ []<><<ParseRun>>_vars)

(***************************************************************************)
(* Properties.                                                             *)
(***************************************************************************)
Last(q) == q[Len(q)]
\* the number of newline characters among the first k characters of input
Newlines(k) == Cardinality({i \in 1..k : input[i] = "\n"})

\* C1: the token sequence the first call of tokenize on a fresh Tokenizer
\* returns, with or without lexical errors, is non-empty, holds Eof exactly
\* once, and that Eof is its last element.
C1_EofOnceAtEnd ==
    Len(returned) >= 1 =>
        LET toks == returned[1].tokens
        IN  /\ Len(toks) >= 1
            /\ toks[Len(toks)] = Eof
            /\ \A i \in 1..(Len(toks) - 1) : toks[i].kind # "Eof"

\* a scan with a lexical error has returned, with tokens before the Eof
C1_Witness ==
    /\ Len(returned) >= 1
    /\ ~returned[1].ok
    /\ Len(returned[1].tokens) >= 3

SameOutcome(a, b) == a.ok = b.ok /\ a.val = b.val /\ a.err = b.err

\* C2: a second call of tokenize on the same Tokenizer, and a second call of
\* parse on the same Parser, returns what the first call returned.
C2_SecondCallSame ==
    /\ Len(returned) >= 2 => returned[2] = returned[1]
    /\ Len(presults) >= 2 => SameOutcome(presults[2], presults[1])

\* how many '(' of a token sequence are open at its end
RECURSIVE OpenParens(_, _)
OpenParens(toks, depth) ==
    IF toks = <<>> THEN depth
    ELSE IF toks[1].kind = "LeftParen" THEN OpenParens(Tail(toks), depth + 1)
    ELSE IF toks[1].kind = "RightParen" /\ depth > 0
    THEN OpenParens(Tail(toks), depth - 1)
    ELSE OpenParens(Tail(toks), depth)

\* C3 as stated: whenever parse fails with the cursor on the Eof while a '('
\* is still open, whatever tokens lie between, the error is
\* UnmatchedParentheses.
C3_OpenParenIsUnmatched ==
    (/\ Len(presults) >= 1
     /\ ~presults[1].ok
     /\ p_tokens[presults[1].at + 1].kind = "Eof"
     /\ OpenParens(p_tokens, 0) > 0) =>
        presults[1].err = UnmatchedParentheses

\* the token texts the input was written from
Prefix == SubSeq(TreeTokens(ast), 1, cut)
RECURSIVE OpenTexts(_, _)
OpenTexts(texts, depth) ==
    IF texts = <<>> THEN depth
    ELSE IF texts[1] = <<"(">> THEN OpenTexts(Tail(texts), depth + 1)
    ELSE IF texts[1] = <<")">> THEN OpenTexts(Tail(texts), depth - 1)
    ELSE OpenTexts(Tail(texts), depth)
OperatorTexts == UnaryOps \cup UNION {BinaryOps(lv) : lv \in 0..3}
\* the input is a well-formed expression cut off inside an open '('
CutOffInGroup == ast # NoTree /\ cut >= 1 /\ OpenTexts(Prefix, 0) > 0

\* C3 as amended: when the token sequence is a well-formed expression cut
\* off inside an open '(', parse fails with UnmatchedParentheses if the cut
\* falls after '(', after ',' or after a complete operand, and with
\* UnexpectedToken if it falls directly after a unary or binary operator.
C3_CutOffGroupIsUnmatched ==
    (CutOffInGroup /\ Len(presults) >= 1) =>
        /\ ~presults[1].ok
        /\ IF Prefix[cut] \in OperatorTexts
           THEN presults[1].err.kind = "UnexpectedToken"
           ELSE presults[1].err = UnmatchedParentheses

\* '(' , a complete operand, then the Eof: parse has failed
C3_Witness ==
    /\ CutOffInGroup
    /\ cut >= 2
    /\ Prefix[cut] = <<"1">>
    /\ Len(presults) >= 1
    /\ presults[1].err = UnmatchedParentheses

\* C4: the token UnexpectedToken carries is the token that was under the
\* cursor when the primary production was attempted, the Eof included.
C4_CarriesOffendingToken ==
    \A k \in 1..Len(presults) :
        (~presults[k].ok /\ presults[k].err.kind = "UnexpectedToken") =>
            presults[k].err.tok = p_tokens[presults[k].at + 1]

\* the kinds of token the expression grammar has a place for
ExpressionKinds ==
    {"Number", "String", "Keyword", "LeftParen", "RightParen", "Comma", "Bang",
     "Operator", "EqualEqual", "BangEqual", "Less", "LessEqual", "Greater",
     "GreaterEqual", "Eof"}
\* the reserved words that are no literal
OtherReservedWords ==
    {KW_and, KW_class, KW_else, KW_for, KW_fun, KW_if, KW_or, KW_print, KW_return,
     KW_super, KW_this, KW_var, KW_while}

\* C5: parse succeeds only on tokens the grammar has a place for; a reserved
\* word other than true, false and nil never yields a rendered string.
C5_OtherKeywordFails ==
    (Len(presults) >= 1 /\ presults[1].ok) =>
        \A i \in 1..Len(p_tokens) :
            /\ p_tokens[i].kind \in ExpressionKinds
            /\ p_tokens[i].kind = "Keyword" => p_tokens[i].s \notin OtherReservedWords

\* the input is a whole well-formed expression
WellFormed == ast # NoTree /\ cut = Len(TreeTokens(ast))

\* C6: on a well-formed expression parse succeeds and renders the tree of
\* the reference grammar (precedence, left-associative binary levels,
\* right-associative unary operators, groups), followed by a newline.
C6_RendersReferenceTree ==
    (WellFormed /\ Len(presults) >= 1) =>
        /\ presults[1].ok
        /\ presults[1].val = Render(ast) \o <<"\n">>

\* a op b op c with two operators of one level has been parsed
C6_Witness ==
    /\ WellFormed
    /\ ast.node = "bin"
    /\ ast.op = <<"-">>
    /\ ast.kids[1].node = "bin"
    /\ ast.kids[1].op = <<"+">>
    /\ Len(presults) >= 1
    /\ presults[1].ok

\* the reserved words of the language
CanonicalReservedWords ==
    {KW_and, KW_class, KW_else, KW_false, KW_for, KW_fun, KW_if, KW_nil, KW_or,
     KW_print, KW_return, KW_super, KW_this, KW_true, KW_var, KW_while}

\* C7: an identifier-shaped lexeme is a Keyword token if and only if its text
\* is one of the canonical reserved words, and an Identifier otherwise.
C7_KeywordIffReserved ==
    \A i \in 1..Len(tokens) :
        tokens[i].kind \in {"Keyword", "Identifier"} =>
            (tokens[i].kind = "Keyword" <=> tokens[i].s \in CanonicalReservedWords)

\* the end (exclusive) of the maximal run of digits of input from i on
RECURSIVE DigitRunEnd(_)
DigitRunEnd(i) ==
    IF i <= Len(input) /\ input[i] \in Digits THEN DigitRunEnd(i + 1) ELSE i
\* the end (exclusive) of the number lexeme that starts at q: the digit run,
\* and a '.' with the digit run after it when a digit follows that '.'
NumberEnd(q) ==
    LET e == DigitRunEnd(q)
    IN  IF e + 1 <= Len(input) /\ input[e] = "." /\ input[e + 1] \in Digits
        THEN DigitRunEnd(e + 1)
        ELSE e

C8_Step ==
    /\ (tpc = "main" /\ peek_char \in Digits) =>
           (tpc' = "number" /\ tokens' = tokens /\ pos' = pos /\ number' = <<>>)
    /\ tpc = "number" =>
           LET q == pos - Len(number)
               e == NumberEnd(q)
               text == SubSeq(input, q, e - 1)
               dot == e <= Len(input) /\ input[e] = "."
           IN  IF tpc' = "number"
               THEN tokens' = tokens /\ pos' <= e
               ELSE /\ Len(tokens') = Len(tokens) + (IF dot THEN 2 ELSE 1)
                    /\ SubSeq(tokens', 1, Len(tokens)) = tokens
                    /\ tokens'[Len(tokens) + 1].kind = "Number"
                    /\ tokens'[Len(tokens) + 1].s = text
                    /\ Cardinality({i \in 1..Len(text) : text[i] = "."}) <= 1
                    /\ dot => tokens'[Len(tokens) + 2] = Lex("Dot")
                    /\ pos' = IF dot THEN e + 1 ELSE e

\* C8: a lexeme starting with a digit yields one Number token whose text is
\* the maximal digit run, extended by '.' and the digit run after it exactly
\* when a digit follows that '.', with at most one '.'; a '.' left out of the
\* number becomes a Dot token directly after the Number token.
C8_NumberLexeme == [][C8_Step]_vars

\* "1.5.5" has been scanned: Number 1.5, Dot, Number 5
C8_Witness ==
    \E i \in 1..Len(tokens) :
        /\ i + 2 <= Len(tokens)
        /\ tokens[i].kind = "Number"
        /\ tokens[i].s = <<"1", ".", "5">>
        /\ tokens[i + 1].kind = "Dot"
        /\ tokens[i + 2].kind = "Number"
        /\ tokens[i + 2].s = <<"5">>

C9_Step ==
    /\ line = 1 + Newlines(pos - 1)
    /\ line' = 1 + Newlines(pos' - 1)
    /\ (Len(tokens') > Len(tokens) /\ Last(tokens').kind = "UnexpectedCharError") =>
           /\ Last(tokens').c = input[pos]
           /\ Last(tokens').line = 1 + Newlines(pos - 1)
           /\ pos' = pos + 1

\* C9: throughout a scan the line counter is 1 plus the number of newline
\* characters consumed so far (those inside string literals and the one
\* that ends a comment counted once each), and an UnexpectedCharError
\* carries 1 plus the number of newlines before the offending character.
C9_LineCount == [][C9_Step]_vars

\* an unexpected character on line 2, after a string that holds a newline
C9_Witness ==
    \E i \in 1..Len(tokens) :
        /\ i + 1 <= Len(tokens)
        /\ tokens[i].kind = "String"
        /\ \E j \in 1..Len(tokens[i].s) : tokens[i].s[j] = "\n"
        /\ tokens[i + 1].kind = "UnexpectedCharError"
        /\ tokens[i + 1].line = 2

C10_Step ==
    LET q == IF tpc = "main" THEN pos ELSE pos - Len(string) - 1
        opening == (tpc = "main" /\ peek_char = "\"") \/ tpc = "string"
        unterminated == \A i \in (q + 1)..Len(input) : input[i] # "\""
    IN  /\ (opening /\ unterminated) =>
               IF tpc' = "string"
               THEN tokens' = tokens /\ has_error' = has_error
               ELSE /\ tokens' = Append(tokens, UnterminatedStringError(1 + Newlines(q - 1)))
                    /\ has_error'
                    /\ tpc' = "main"
                    /\ pos' = Len(input) + 1
        /\ (tpc = "main" /\ tokens # <<>> /\ Last(tokens).kind = "UnterminatedStringError"
                /\ tpc' # tpc) =>
               /\ tpc' = "returned"
               /\ ~Last(returned').ok
               /\ Last(returned').tokens = Append(tokens, Eof)

\* C10: for an opening quote with no closing quote before the end of input
\* the scanner keeps the tokens it had, pushes exactly one
\* UnterminatedStringError carrying the line of the opening quote and no
\* String token, and the call returns the failure result.
C10_UnterminatedString == [][C10_Step]_vars

\* an unterminated string that spans a newline, after another token
C10_Witness ==
    /\ Len(returned) >= 1
    /\ ~returned[1].ok
    /\ \E i \in 2..Len(returned[1].tokens) :
           /\ returned[1].tokens[i].kind = "UnterminatedStringError"
           /\ returned[1].tokens[i].line < line

(***************************************************************************)
(* Tokenizer::new(text).tokenize() as a function of the text: the main     *)
(* loop and the handlers' loops as recursion over the cursor p, with the   *)
(* line counter ln, the tokens pushed so far and the fault flag.           *)
(***************************************************************************)
CharAt(text, p) == IF p <= Len(text) THEN text[p] ELSE NoChar

RECURSIVE ScanMain(_, _, _, _, _), ScanNumber(_, _, _, _, _, _, _),
          ScanIdentifier(_, _, _, _, _, _), ScanString(_, _, _, _, _, _, _),
          ScanComment(_, _, _, _, _)

\* handle_equal, handle_bang, handle_less, handle_greater
ScanTwoChar(text, p, ln, toks, err, single, double) ==
    IF CharAt(text, p + 1) = "="
    THEN ScanMain(text, p + 2, ln, Append(toks, Lex(double)), err)
    ELSE ScanMain(text, p + 1, ln, Append(toks, Lex(single)), err)

ScanMain(text, p, ln, toks, err) ==
    IF p > Len(text) THEN TokenizeResult(Append(toks, Eof), err)
    ELSE LET c == text[p] IN
      CASE c \in {" ", "\t", "\r"} -> ScanMain(text, p + 1, ln, toks, err)
        [] c = "\n" -> ScanMain(text, p + 1, ln + 1, toks, err)
        [] c \in AddTokenChars ->
              ScanMain(text, p + 1, ln, Append(toks, AddTokenLexeme(c)), err)
        [] c = "=" -> ScanTwoChar(text, p, ln, toks, err, "Equal", "EqualEqual")
        [] c = "!" -> ScanTwoChar(text, p, ln, toks, err, "Bang", "BangEqual")
        [] c = "<" -> ScanTwoChar(text, p, ln, toks, err, "Less", "LessEqual")
        [] c = ">" -> ScanTwoChar(text, p, ln, toks, err, "Greater", "GreaterEqual")
        [] c \in Digits -> ScanNumber(text, p, ln, toks, err, <<>>, FALSE)
        [] IdentifierStart(c) -> ScanIdentifier(text, p, ln, toks, err, <<>>)
        [] c = "\"" -> ScanString(text, p + 1, ln, toks, err, <<>>, ln)
        [] c = "/" ->
              IF CharAt(text, p + 1) = "/" THEN ScanComment(text, p + 2, ln, toks, err)
              ELSE ScanMain(text, p + 1, ln, Append(toks, Operator("Slash")), err)
        [] OTHER ->
              ScanMain(text, p + 1, ln, Append(toks, UnexpectedCharError(ln, c)), TRUE)

\* handle_number
ScanNumber(text, p, ln, toks, err, num, dec) ==
    LET d == CharAt(text, p) IN
    IF d \in Digits THEN ScanNumber(text, p + 1, ln, toks, err, Append(num, d), dec)
    ELSE IF d = "." /\ ~dec /\ is_ascii_digit(CharAt(text, p + 1))
    THEN ScanNumber(text, p + 1, ln, toks, err, Append(num, d), TRUE)
    ELSE IF d = "."
    THEN ScanMain(text, p + 1, ln,
                  toks \o <<Number(num, ParseF64(num)), Lex("Dot")>>, err)
    ELSE ScanMain(text, p, ln, Append(toks, Number(num, ParseF64(num))), err)

\* handle_identifier
ScanIdentifier(text, p, ln, toks, err, ident) ==
    LET d == CharAt(text, p) IN
    IF is_alphanumeric(d) \/ d = "_"
    THEN ScanIdentifier(text, p + 1, ln, toks, err, Append(ident, d))
    ELSE ScanMain(text, p, ln, Append(toks, IdentifierLexeme(ident)), err)

\* handle_string, entered after the opening quote
ScanString(text, p, ln, toks, err, str, start) ==
    IF p > Len(text)
    THEN ScanMain(text, p, ln, Append(toks, UnterminatedStringError(start)), TRUE)
    ELSE IF text[p] = "\""
    THEN ScanMain(text, p + 1, ln, Append(toks, String(str)), err)
    ELSE ScanString(text, p + 1, IF text[p] = "\n" THEN ln + 1 ELSE ln, toks, err,
                    Append(str, text[p]), start)

\* the comment loop of handle_slash
ScanComment(text, p, ln, toks, err) ==
    IF p > Len(text) \/ text[p] = "\n" THEN ScanMain(text, p, ln, toks, err)
    ELSE ScanComment(text, p + 1, ln, toks, err)

\* Tokenizer::new(text).tokenize()
Scan(text) == ScanMain(text, 1, 1, <<>>, FALSE)

\* a token sequence with the line numbers of its tokens left out
StripLines(toks) == [i \in 1..Len(toks) |-> [toks[i] EXCEPT !.line = 0]]
IsErrorToken(t) == t.kind \in {"UnexpectedCharError", "UnterminatedStringError"}
\* a token sequence without its last token (the Eof)
Front(toks) == SubSeq(toks, 1, Len(toks) - 1)

C11_Step ==
    /\ (tpc = "main" /\ ~AtEnd /\ peek_char \notin MatchedChars) =>
           /\ tokens' = Append(tokens, UnexpectedCharError(line, input[pos]))
           /\ has_error'
           /\ pos' = pos + 1
           /\ tpc' = "main"
    /\ (Len(returned) = 0 /\ Len(returned') = 1) =>
           LET res == returned'[1]
               toks == res.tokens
           IN  /\ res.ok <=> \A i \in 1..Len(toks) : ~IsErrorToken(toks[i])
               /\ \A i \in 1..Len(toks) :
                      toks[i].kind = "UnexpectedCharError" =>
                          \E p \in 1..Len(input) :
                              /\ toks[i] = UnexpectedCharError(1 + Newlines(p - 1), input[p])
                              /\ input[p] \notin MatchedChars
                              /\ SubSeq(toks, 1, i - 1)
                                     = Front(Scan(SubSeq(input, 1, p - 1)).tokens)
                              /\ StripLines(SubSeq(toks, i + 1, Len(toks)))
                                     = StripLines(Scan(SubSeq(input, p + 1, Len(input))).tokens)

\* C11: a character that starts no lexeme does not stop the scan: the
\* catch-all arm pushes one UnexpectedCharError carrying the character, sets
\* the fault flag and consumes exactly that character; in the returned
\* sequence the tokens after that error are, line numbers aside, the tokens
\* a scan of the rest of the text alone returns, and the result is the
\* failure variant if and only if the sequence holds an error token.
C11_UnexpectedCharContinues == [][C11_Step]_vars

\* "@" between two other tokens has been scanned, and the call has returned
C11_Witness ==
    /\ Len(returned) >= 1
    /\ ~returned[1].ok
    /\ \E i \in 2..(Len(returned[1].tokens) - 2) :
           /\ returned[1].tokens[i] = UnexpectedCharError(1, "@")
           /\ ~IsErrorToken(returned[1].tokens[i + 1])

Scanning == tpc \in {"main", "number", "identifier", "string", "comment"}

C12_Step ==
    /\ pos' >= pos
    /\ current' >= current
    /\ (tpc = "main" /\ ~AtEnd) => (pos' > pos \/ tpc' \in {"number", "identifier"})
    /\ (tpc = "main" /\ AtEnd) => tpc' = "returned"
    /\ tpc = "number" => (pos' > pos \/ (tpc' = "main" /\ number # <<>>))
    /\ tpc = "identifier" => (pos' > pos \/ (tpc' = "main" /\ identifier # <<>>))
    /\ tpc \in {"string", "comment"} => (pos' > pos \/ tpc' = "main")
    /\ ppc = "loop" => ((current' > current /\ ppc' = "loop") \/ ppc' = "returned")
    /\ \A k \in 1..Len(presults') : presults'[k].err # Panic

\* C12: both components terminate.  Every step of a scan moves the cursor
\* forward or leaves its loop (a handler's loop is left only after it has
\* consumed a character), every iteration of parse's loop moves the cursor
\* forward or returns, and parse returns a result or an error, never a
\* panic; a call of tokenize that is under way returns, and so does a call
\* of parse.
C12_Terminates ==
    /\ [][C12_Step]_vars
    /\ Scanning ~> (tpc = "returned")
    /\ (ppc = "loop") ~> (ppc = "returned")

\* "1 + 2.50" or the like has been scanned and parsed: the number loop
\* and the loop of a binary level have run, and both calls have returned
C12_Witness ==
    /\ WellFormed
    /\ ast.node = "bin"
    /\ tpc = "returned"
    /\ ppc = "returned"
    /\ Len(presults) >= 1
    /\ presults[1].ok

(***************************************************************************)
(* main.rs: fn tokenize(input), the scanner the command-line entry point   *)
(* calls, as a function of the text: its main loop and the loops of its    *)
(* arms as recursion over the cursor p, with line, tokens and has_error.   *)
(***************************************************************************)
\* the list of the identifier arm
main_keywords ==
    {KW_and, KW_class, KW_else, KW_false, KW_for, KW_fun, KW_if, KW_nil, KW_or,
     KW_print, KW_return, KW_super, KW_this, KW_true, KW_var, KW_while}

RECURSIVE main_loop(_, _, _, _, _), main_number(_, _, _, _, _, _, _),
          main_identifier(_, _, _, _, _, _), main_string(_, _, _, _, _, _, _),
          main_comment(_, _, _, _, _)

\* the arms '=', '!', '<', '>'
main_two_char(text, p, ln, toks, err, single, double) ==
    IF CharAt(text, p + 1) = "="
    THEN main_loop(text, p + 2, ln, Append(toks, Lex(double)), err)
    ELSE main_loop(text, p + 1, ln, Append(toks, Lex(single)), err)

main_loop(text, p, ln, toks, err) ==
    IF p > Len(text)
    THEN [ok |-> ~err, tokens |-> Append(toks, Eof)]
    ELSE LET c == text[p] IN
      CASE c \in {" ", "\t", "\r"} -> main_loop(text, p + 1, ln, toks, err)
        [] c = "\n" -> main_loop(text, p + 1, ln + 1, toks, err)
        [] c = "(" -> main_loop(text, p + 1, ln, Append(toks, Lex("LeftParen")), err)
        [] c = ")" -> main_loop(text, p + 1, ln, Append(toks, Lex("RightParen")), err)
        [] c = "{" -> main_loop(text, p + 1, ln, Append(toks, Lex("LeftBrace")), err)
        [] c = "}" -> main_loop(text, p + 1, ln, Append(toks, Lex("RightBrace")), err)
        [] c = "," -> main_loop(text, p + 1, ln, Append(toks, Lex("Comma")), err)
        [] c = "." -> main_loop(text, p + 1, ln, Append(toks, Lex("Dot")), err)
        [] c = ";" -> main_loop(text, p + 1, ln, Append(toks, Lex("Semicolon")), err)
        [] c = "=" -> main_two_char(text, p, ln, toks, err, "Equal", "EqualEqual")
        [] c = "!" -> main_two_char(text, p, ln, toks, err, "Bang", "BangEqual")
        [] c = "<" -> main_two_char(text, p, ln, toks, err, "Less", "LessEqual")
        [] c = ">" -> main_two_char(text, p, ln, toks, err, "Greater", "GreaterEqual")
        [] c \in Digits -> main_number(text, p, ln, toks, err, <<>>, FALSE)
        [] c \in Lower \cup Upper \cup {"_"} ->
              main_identifier(text, p, ln, toks, err, <<>>)
        [] c = "\"" -> main_string(text, p + 1, ln, toks, err, <<>>, ln)
        [] c = "+" -> main_loop(text, p + 1, ln, Append(toks, Operator("Plus")), err)
        [] c = "-" -> main_loop(text, p + 1, ln, Append(toks, Operator("Minus")), err)
        [] c = "*" -> main_loop(text, p + 1, ln, Append(toks, Operator("Star")), err)
        [] c = "/" ->
              IF CharAt(text, p + 1) = "/" THEN main_comment(text, p + 2, ln, toks, err)
              ELSE main_loop(text, p + 1, ln, Append(toks, Operator("Slash")), err)
        [] OTHER ->
              main_loop(text, p + 1, ln, Append(toks, UnexpectedCharError(ln, c)), TRUE)

\* the arm '0'..='9': on a '.' the test chars.peek().map_or(false, ..) looks
\* at the character under the cursor, the '.' itself
main_number(text, p, ln, toks, err, num, dec) ==
    LET d == CharAt(text, p) IN
    IF is_ascii_digit(d)
    THEN main_number(text, p + 1, ln, toks, err, Append(num, d), dec)
    ELSE IF d = "." /\ ~dec /\ is_ascii_digit(CharAt(text, p))
    THEN main_number(text, p + 1, ln, toks, err, Append(num, d), TRUE)
    ELSE IF d = "."
    THEN main_loop(text, p + 1, ln,
                   toks \o <<Number(num, ParseF64(num)), Lex("Dot")>>, err)
    ELSE main_loop(text, p, ln, Append(toks, Number(num, ParseF64(num))), err)

\* the arm 'a'..='z' | 'A'..='Z' | '_'
main_identifier(text, p, ln, toks, err, ident) ==
    LET d == CharAt(text, p) IN
    IF is_alphanumeric(d) \/ d = "_"
    THEN main_identifier(text, p + 1, ln, toks, err, Append(ident, d))
    ELSE main_loop(text, p, ln,
                   Append(toks, IF ident \in main_keywords THEN Keyword(ident)
                                ELSE Identifier(ident)), err)

\* the arm '"', entered after the opening quote
main_string(text, p, ln, toks, err, str, start) ==
    IF p > Len(text)
    THEN main_loop(text, p, ln, Append(toks, UnterminatedStringError(start)), TRUE)
    ELSE IF text[p] = "\""
    THEN main_loop(text, p + 1, ln, Append(toks, String(str)), err)
    ELSE main_string(text, p + 1, IF text[p] = "\n" THEN ln + 1 ELSE ln, toks, err,
                     Append(str, text[p]), start)

\* the comment loop of the arm '/'
main_comment(text, p, ln, toks, err) ==
    IF p > Len(text) \/ text[p] = "\n" THEN main_loop(text, p, ln, toks, err)
    ELSE main_comment(text, p + 1, ln, toks, err)

main_tokenize(text) == main_loop(text, 1, 1, <<>>, FALSE)

\* main calls tokenize on the text
MainTokenize ==
    /\ m_returned = <<>>
    /\ m_returned' = <<main_tokenize(input)>>
    /\ UNCHANGED <<tvars, pvars, ast, cut>>

NextMain == NextScan \/ MainTokenize

\* both scanners at work on one text
SpecMain == Init /\ [][NextMain]_vars

\* C13: on every source text, tokenize of main.rs and Tokenizer::tokenize on
\* a fresh Tokenizer return the same variant and the same token sequence.
C13_ScannersAgree ==
    (Len(m_returned) >= 1 /\ Len(returned) >= 1) => m_returned[1] = returned[1]

====
